---- MODULE Spec2Model ----
(***************************************************************************)
(* Model of the tagpr configuration resolver (config.go): the five cached  *)
(* settings with their provenance, Reload() over environment and git       *)
(* config store, and the setters with their write/self-repair path.        *)
(***************************************************************************)
EXTENDS Integers, Sequences, FiniteSets, TLC

VARIABLES cfg, env, file, phase, steps, last

vars == <<cfg, env, file, phase, steps, last>>

\* ------------------------------------------------------------------ bounds
MaxSteps == 3

\* --------------------------------------------------------------- constants
envReleaseBranch == "TAGPR_RELEASE_BRANCH"
envVersionFile == "TAGPR_VERSION_FILE"
envVPrefix == "TAGPR_VPREFIX"
envCommand == "TAGPR_COMMAND"
envTemplate == "TAGPR_TEMPLATE"
configReleaseBranch == "tagpr.releaseBranch"
configVersionFile == "tagpr.versionFile"
configVPrefix == "tagpr.vPrefix"
configCommand == "tagpr.command"
configTemplate == "tagpr.template"

srcEnv == 0
srcConfigFile == 1
srcDetect == 2

EnvNames == {envReleaseBranch, envVersionFile, envVPrefix, envCommand, envTemplate}
Keys == {configReleaseBranch, configVersionFile, configVPrefix, configCommand, configTemplate}

\* ------------------------------------------------------- pointers (nil/ref)
Nil == <<>>
Ref(x) == <<x>>
Deref(p) == p[1]

configValue(v, s) == [value |-> v, source |-> s]

\* slip: Empty tests the raw text, so the sentinel does not count as empty
EmptyRaw(cv) == cv.value = ""

\* slip: String returns the raw text, sentinel included
StringRaw(cv) == cv.value

\* configValue.String / configValue.Empty
String(cv) == IF cv.value = "-" THEN "" ELSE cv.value
Empty(cv) == String(cv) = ""

\* --------------------------------------------------------------- strconv
ParseBoolTrue == {"1", "t", "T", "TRUE", "true", "True"}
ParseBoolFalse == {"0", "f", "F", "FALSE", "false", "False"}
ParseBool(s) ==
    IF s \in ParseBoolTrue THEN [b |-> TRUE, err |-> "nil"]
    ELSE IF s \in ParseBoolFalse THEN [b |-> FALSE, err |-> "nil"]
    ELSE [b |-> FALSE, err |-> "ErrSyntax"]
FormatBool(b) == IF b THEN "true" ELSE "false"

\* ------------------------------------------------------- the backing file
NoKeys == [k \in Keys |-> Nil]
Absent == [state |-> "absent", dflt |-> FALSE, kv |-> NoKeys]
Corrupt == [state |-> "corrupt", dflt |-> FALSE, kv |-> NoKeys]
Truncated == [state |-> "valid", dflt |-> FALSE, kv |-> NoKeys]
defaultConfigContent == [state |-> "valid", dflt |-> TRUE, kv |-> NoKeys]

exists(f) == f.state # "absent"

\* --------------------------------------------------- gitconfig collaborator
GitGet(f, key) ==
    IF f.state = "valid" /\ f.kv[key] # Nil
    THEN [out |-> Deref(f.kv[key]), err |-> "nil"]
    ELSE [out |-> "", err |-> "ErrGet"]

GitBoolTrue == {"true", "yes", "on", "1"}
GitBoolFalse == {"false", "no", "off", "0"}
GitBool(f, key) ==
    LET r == GitGet(f, key) IN
    IF r.err # "nil" THEN [b |-> FALSE, err |-> r.err]
    ELSE IF r.out \in GitBoolTrue THEN [b |-> TRUE, err |-> "nil"]
    ELSE IF r.out \in GitBoolFalse THEN [b |-> FALSE, err |-> "nil"]
    ELSE [b |-> FALSE, err |-> "ErrBool"]

\* one write `git config --file <conf> key value`; fault = the write fails for
\* a reason outside the file's content (permissions, disk full)
GitDo(f, key, value, fault) ==
    IF fault \/ f.state = "corrupt" THEN [file |-> f, err |-> "ErrDo"]
    ELSE [file |-> [state |-> "valid", dflt |-> f.dflt,
                    kv |-> [f.kv EXCEPT ![key] = Ref(value)]],
          err |-> "nil"]

Getenv(name) == env[name]

\* ------------------------------------------------------------------ Reload
\* A reload in progress: the fields so far, the store keys looked up so far,
\* and the error to return.
ReloadStart(c) == [cfg |-> c, lookups |-> {}, err |-> "nil"]

\* slip: on a store miss the release branch falls back to the version file field
ReloadReleaseBranchFallsBack(st) ==
    IF Getenv(envReleaseBranch) # ""
    THEN [st EXCEPT !.cfg.releaseBranch =
              Ref(configValue(Getenv(envReleaseBranch), srcEnv))]
    ELSE LET r == GitGet(file, configReleaseBranch) IN
         [st EXCEPT !.lookups = @ \cup {configReleaseBranch},
                    !.cfg.releaseBranch =
                        IF r.err = "nil" THEN Ref(configValue(r.out, srcConfigFile))
                        ELSE st.cfg.versionFile]

ReloadReleaseBranch(st) ==
    IF Getenv(envReleaseBranch) # ""
    THEN [st EXCEPT !.cfg.releaseBranch =
              Ref(configValue(Getenv(envReleaseBranch), srcEnv))]
    ELSE LET r == GitGet(file, configReleaseBranch) IN
         [st EXCEPT !.lookups = @ \cup {configReleaseBranch},
                    !.cfg.releaseBranch =
                        IF r.err = "nil" THEN Ref(configValue(r.out, srcConfigFile))
                        ELSE @]

\* slip: the store is consulted only while the field is still nil
ReloadVersionFileOnlyIfNil(st) ==
    IF Getenv(envVersionFile) # ""
    THEN [st EXCEPT !.cfg.versionFile =
              Ref(configValue(Getenv(envVersionFile), srcEnv))]
    ELSE IF st.cfg.versionFile # Nil THEN st
    ELSE LET r == GitGet(file, configVersionFile) IN
         [st EXCEPT !.lookups = @ \cup {configVersionFile},
                    !.cfg.versionFile =
                        IF r.err = "nil" THEN Ref(configValue(r.out, srcConfigFile))
                        ELSE @]

ReloadVersionFile(st) ==
    IF Getenv(envVersionFile) # ""
    THEN [st EXCEPT !.cfg.versionFile =
              Ref(configValue(Getenv(envVersionFile), srcEnv))]
    ELSE LET r == GitGet(file, configVersionFile) IN
         [st EXCEPT !.lookups = @ \cup {configVersionFile},
                    !.cfg.versionFile =
                        IF r.err = "nil" THEN Ref(configValue(r.out, srcConfigFile))
                        ELSE @]

\* slip: a failed store lookup of the boolean is returned as the reload's error
ReloadVPrefixStoreError(st) ==
    IF Getenv(envVPrefix) # ""
    THEN LET p == ParseBool(Getenv(envVPrefix)) IN
         IF p.err # "nil" THEN [st EXCEPT !.err = p.err]
         ELSE [st EXCEPT !.cfg.vPrefix = Ref(p.b)]
    ELSE LET r == GitBool(file, configVPrefix) IN
         IF r.err # "nil" THEN [st EXCEPT !.lookups = @ \cup {configVPrefix}, !.err = r.err]
         ELSE [st EXCEPT !.lookups = @ \cup {configVPrefix}, !.cfg.vPrefix = Ref(r.b)]

ReloadVPrefix(st) ==
    IF Getenv(envVPrefix) # ""
    THEN LET p == ParseBool(Getenv(envVPrefix)) IN
         IF p.err # "nil" THEN [st EXCEPT !.err = p.err]
         ELSE [st EXCEPT !.cfg.vPrefix = Ref(p.b)]
    ELSE LET r == GitBool(file, configVPrefix) IN
         [st EXCEPT !.lookups = @ \cup {configVPrefix},
                    !.cfg.vPrefix = IF r.err = "nil" THEN Ref(r.b) ELSE @]

\* slip: the store is asked first and the environment only on a miss
ReloadCommandStoreFirst(st) ==
    LET r == GitGet(file, configCommand) IN
    IF r.err = "nil"
    THEN [st EXCEPT !.lookups = @ \cup {configCommand},
                    !.cfg.command = Ref(configValue(r.out, srcConfigFile))]
    ELSE IF Getenv(envCommand) # ""
    THEN [st EXCEPT !.cfg.command = Ref(configValue(Getenv(envCommand), srcEnv))]
    ELSE [st EXCEPT !.lookups = @ \cup {configCommand}]

ReloadCommand(st) ==
    IF Getenv(envCommand) # ""
    THEN [st EXCEPT !.cfg.command = Ref(configValue(Getenv(envCommand), srcEnv))]
    ELSE LET r == GitGet(file, configCommand) IN
         [st EXCEPT !.lookups = @ \cup {configCommand},
                    !.cfg.command =
                        IF r.err = "nil" THEN Ref(configValue(r.out, srcConfigFile))
                        ELSE @]

ReloadTemplate(st) ==
    IF Getenv(envTemplate) # ""
    THEN [st EXCEPT !.cfg.template = Ref(configValue(Getenv(envTemplate), srcEnv))]
    ELSE LET r == GitGet(file, configTemplate) IN
         [st EXCEPT !.lookups = @ \cup {configTemplate},
                    !.cfg.template =
                        IF r.err = "nil" THEN Ref(configValue(r.out, srcConfigFile))
                        ELSE @]

\* slip: the parse error is kept but the remaining settings are still processed
ReloadRunNoAbort(c) ==
    ReloadTemplate(ReloadCommand(
        ReloadVPrefix(ReloadVersionFile(ReloadReleaseBranch(ReloadStart(c))))))

\* the whole of config.Reload: the five settings in order, returning at once
\* when the boolean environment value does not parse
ReloadRun(c) ==
    LET s3 == ReloadVPrefix(ReloadVersionFile(ReloadReleaseBranch(ReloadStart(c)))) IN
    IF s3.err # "nil" THEN s3 ELSE ReloadTemplate(ReloadCommand(s3))

\* --------------------------------------------------------------------- set
\* slip: a readable file is kept as it is instead of being replaced
initializeFileKeepsKeys(f, fault, left) ==
    IF fault = "remove" THEN [file |-> f, err |-> "ErrRemove"]
    ELSE IF fault = "write" THEN [file |-> left, err |-> "ErrWrite"]
    ELSE IF f.state = "valid" THEN [file |-> f, err |-> "nil"]
    ELSE [file |-> defaultConfigContent, err |-> "nil"]

\* slip: the file is recreated empty instead of with the default content
initializeFileEmpty(f, fault, left) ==
    IF fault = "remove" THEN [file |-> f, err |-> "ErrRemove"]
    ELSE IF fault = "write" THEN [file |-> left, err |-> "ErrWrite"]
    ELSE [file |-> Truncated, err |-> "nil"]

\* initializeFile: fault "remove" = os.RemoveAll fails, "write" = os.WriteFile
\* fails (leaving no file or a truncated one, per `left`), "none" = both succeed
InitFaults == {"none", "remove", "write"}
initializeFile(f, fault, left) ==
    IF fault = "remove" THEN [file |-> f, err |-> "ErrRemove"]
    ELSE IF fault = "write" THEN [file |-> left, err |-> "ErrWrite"]
    ELSE [file |-> defaultConfigContent, err |-> "nil"]

\* the faults one call of set may meet, one per primitive call it can make;
\* a fault that cannot be met (a later call after a failed one) is left unset
Plans ==
    {p \in [init1 : InitFaults, do1 : BOOLEAN, init2 : InitFaults, do2 : BOOLEAN,
            left : {Absent, Truncated}] :
        /\ (p.left = Truncated => "write" \in {p.init1, p.init2})
        /\ (p.init1 # "none" => ~p.do1)
        /\ (~p.do1 => p.init2 = "none" /\ ~p.do2)
        /\ (p.init2 # "none" => ~p.do2)}

\* the plan names only faults this call of set can meet from file f
Meets(f, plan) == exists(f) => plan.init1 = "none"

\* slip: the empty string is written as it is
EncodeNoSentinel(value) == value

\* value "-" represents null
Encode(value) == IF value = "" THEN "-" ELSE value

\* slip: the write is retried although recreating the file failed
setRetriesAfterFailedInit(f, key, value, plan) ==
    LET i1 == IF ~exists(f) THEN initializeFile(f, plan.init1, plan.left)
              ELSE [file |-> f, err |-> "nil"]
        t1 == IF ~exists(f) THEN <<[call |-> "initializeFile", err |-> i1.err]>>
              ELSE <<>>
    IN  IF i1.err # "nil" THEN [file |-> i1.file, err |-> i1.err, trace |-> t1]
        ELSE
        LET v == IF value = "" THEN "-" ELSE value
            d1 == GitDo(i1.file, key, v, plan.do1)
            t2 == Append(t1, [call |-> "Do", err |-> d1.err])
        IN  IF d1.err = "nil" THEN [file |-> d1.file, err |-> "nil", trace |-> t2]
            ELSE
            LET i2 == initializeFile(d1.file, plan.init2, plan.left)
                t3 == Append(t2, [call |-> "initializeFile", err |-> i2.err])
                d2 == GitDo(i2.file, key, v, plan.do2)
            IN  [file |-> d2.file, err |-> d2.err,
                 trace |-> Append(t3, [call |-> "Do", err |-> d2.err])]

\* config.set; trace lists the primitive calls made, in order, with their errors
set(f, key, value, plan) ==
    LET i1 == IF ~exists(f) THEN initializeFile(f, plan.init1, plan.left)
              ELSE [file |-> f, err |-> "nil"]
        t1 == IF ~exists(f) THEN <<[call |-> "initializeFile", err |-> i1.err]>>
              ELSE <<>>
    IN  IF i1.err # "nil" THEN [file |-> i1.file, err |-> i1.err, trace |-> t1]
        ELSE
        LET v == Encode(value)
            d1 == GitDo(i1.file, key, v, plan.do1)
            t2 == Append(t1, [call |-> "Do", err |-> d1.err])
        IN  IF d1.err = "nil" THEN [file |-> d1.file, err |-> "nil", trace |-> t2]
            ELSE
            LET i2 == initializeFile(d1.file, plan.init2, plan.left)
                t3 == Append(t2, [call |-> "initializeFile", err |-> i2.err])
            IN  IF i2.err # "nil"
                THEN [file |-> i2.file, err |-> i2.err, trace |-> t3]
                ELSE
                LET d2 == GitDo(i2.file, key, v, plan.do2) IN
                [file |-> d2.file, err |-> d2.err,
                 trace |-> Append(t3, [call |-> "Do", err |-> d2.err])]

\* ------------------------------------------------------------ input domains
EnvStrVals == {"", "main"}
EnvBoolVals == {"", "1", "notabool"}
EnvVals(name) == IF name = envVPrefix THEN EnvBoolVals ELSE EnvStrVals
StrArgs == {"", "-", "develop"}
EditVals(key) == IF key = configVPrefix THEN {"maybe"} ELSE {"hotfix"}
Populated ==
    [state |-> "valid", dflt |-> TRUE,
     kv |-> [k \in Keys |-> IF k = configVPrefix THEN Ref("true") ELSE Ref("topic")]]

NilConfig ==
    [releaseBranch |-> Nil, versionFile |-> Nil, command |-> Nil,
     template |-> Nil, vPrefix |-> Nil]

\* what the model remembers of the latest call: its name, argument, returned
\* error, the primitive calls a setter made, the store keys a reload looked up
\* and, for a reload, the call it directly follows
Call(op, arg, err, trace, lookups, after) ==
    [op |-> op, arg |-> arg, err |-> err, trace |-> trace, lookups |-> lookups,
     after |-> after]
Brief(call) == [op |-> call.op, arg |-> call.arg, err |-> call.err]
NoBrief == [op |-> "none", arg |-> "", err |-> "nil"]
NoCall == Call("none", "", "nil", <<>>, {}, NoBrief)

\* ------------------------------------------------------------------ actions
Init ==
    /\ cfg = NilConfig
    /\ env = [n \in EnvNames |-> ""]
    /\ file \in {Absent, defaultConfigContent, Populated}
    /\ phase = "new"
    /\ steps = 0
    /\ last = NoCall

newConfig ==
    /\ phase = "new"
    /\ LET r == ReloadRun(cfg) IN
       /\ cfg' = r.cfg
       /\ last' = Call("newConfig", "", r.err, <<>>, r.lookups, NoBrief)
    /\ phase' = "ready"
    /\ UNCHANGED <<env, file, steps>>

\* slip: a reload creates the missing backing file
ReloadCreatesFile ==
    /\ phase = "ready" /\ steps < MaxSteps
    /\ LET r == ReloadRun(cfg) IN
       /\ cfg' = r.cfg
       /\ last' = Call("Reload", "", r.err, <<>>, r.lookups, Brief(last))
    /\ steps' = steps + 1
    /\ file' = IF exists(file) THEN file ELSE defaultConfigContent
    /\ UNCHANGED <<env, phase>>

Reload ==
    /\ phase = "ready" /\ steps < MaxSteps
    /\ LET r == ReloadRun(cfg) IN
       /\ cfg' = r.cfg
       /\ last' = Call("Reload", "", r.err, <<>>, r.lookups, Brief(last))
    /\ steps' = steps + 1
    /\ UNCHANGED <<env, file, phase>>

\* slip: the field is assigned before the error of set is looked at
SetRelaseBranchAssignsFirst(br, plan) ==
    /\ phase = "ready" /\ steps < MaxSteps
    /\ Meets(file, plan)
    /\ LET r == set(file, configReleaseBranch, br, plan) IN
       /\ file' = r.file
       /\ cfg' = [cfg EXCEPT !.releaseBranch = Ref(configValue(br, srcDetect))]
       /\ last' = Call("SetRelaseBranch", br, r.err, r.trace, {}, NoBrief)
    /\ steps' = steps + 1
    /\ UNCHANGED <<env, phase>>

SetRelaseBranch(br, plan) ==
    /\ phase = "ready" /\ steps < MaxSteps
    /\ Meets(file, plan)
    /\ LET r == set(file, configReleaseBranch, br, plan) IN
       /\ file' = r.file
       /\ cfg' = IF r.err # "nil" THEN cfg
                 ELSE [cfg EXCEPT !.releaseBranch = Ref(configValue(br, srcDetect))]
       /\ last' = Call("SetRelaseBranch", br, r.err, r.trace, {}, NoBrief)
    /\ steps' = steps + 1
    /\ UNCHANGED <<env, phase>>

\* slip: the version file setter assigns the release branch field
SetVersionFileWrongSlot(fpath, plan) ==
    /\ phase = "ready" /\ steps < MaxSteps
    /\ Meets(file, plan)
    /\ LET r == set(file, configVersionFile, fpath, plan) IN
       /\ file' = r.file
       /\ cfg' = IF r.err # "nil" THEN cfg
                 ELSE [cfg EXCEPT !.releaseBranch = Ref(configValue(fpath, srcDetect))]
       /\ last' = Call("SetVersionFile", fpath, r.err, r.trace, {}, NoBrief)
    /\ steps' = steps + 1
    /\ UNCHANGED <<env, phase>>

SetVersionFile(fpath, plan) ==
    /\ phase = "ready" /\ steps < MaxSteps
    /\ Meets(file, plan)
    /\ LET r == set(file, configVersionFile, fpath, plan) IN
       /\ file' = r.file
       /\ cfg' = IF r.err # "nil" THEN cfg
                 ELSE [cfg EXCEPT !.versionFile = Ref(configValue(fpath, srcDetect))]
       /\ last' = Call("SetVersionFile", fpath, r.err, r.trace, {}, NoBrief)
    /\ steps' = steps + 1
    /\ UNCHANGED <<env, phase>>

\* slip: false is treated as "not set" and the field is left nil
SetVPrefixTruthy(vPrefix, plan) ==
    /\ phase = "ready" /\ steps < MaxSteps
    /\ Meets(file, plan)
    /\ LET r == set(file, configVPrefix, FormatBool(vPrefix), plan) IN
       /\ file' = r.file
       /\ cfg' = IF r.err # "nil" THEN cfg
                 ELSE [cfg EXCEPT !.vPrefix = IF vPrefix THEN Ref(TRUE) ELSE Nil]
       /\ last' = Call("SetVPrefix", FormatBool(vPrefix), r.err, r.trace, {}, NoBrief)
    /\ steps' = steps + 1
    /\ UNCHANGED <<env, phase>>

SetVPrefix(vPrefix, plan) ==
    /\ phase = "ready" /\ steps < MaxSteps
    /\ Meets(file, plan)
    /\ LET r == set(file, configVPrefix, FormatBool(vPrefix), plan) IN
       /\ file' = r.file
       /\ cfg' = IF r.err # "nil" THEN cfg
                 ELSE [cfg EXCEPT !.vPrefix = Ref(vPrefix)]
       /\ last' = Call("SetVPrefix", FormatBool(vPrefix), r.err, r.trace, {}, NoBrief)
    /\ steps' = steps + 1
    /\ UNCHANGED <<env, phase>>

\* the process environment changes between calls
Setenv(name, value) ==
    /\ steps < MaxSteps
    /\ env[name] # value
    /\ env' = [env EXCEPT ![name] = value]
    /\ last' = Call("Setenv", name, "nil", <<>>, {}, NoBrief)
    /\ steps' = steps + 1
    /\ UNCHANGED <<cfg, file, phase>>

\* the backing file is deleted, damaged or edited by hand between calls
DeleteFile ==
    /\ phase = "ready" /\ steps < MaxSteps
    /\ exists(file)
    /\ file' = Absent
    /\ last' = Call("DeleteFile", "", "nil", <<>>, {}, NoBrief)
    /\ steps' = steps + 1
    /\ UNCHANGED <<cfg, env, phase>>

CorruptFile ==
    /\ phase = "ready" /\ steps < MaxSteps
    /\ file.state = "valid"
    /\ file' = Corrupt
    /\ last' = Call("CorruptFile", "", "nil", <<>>, {}, NoBrief)
    /\ steps' = steps + 1
    /\ UNCHANGED <<cfg, env, phase>>

EditFile(key, value) ==
    /\ phase = "ready" /\ steps < MaxSteps
    /\ file.state = "valid"
    /\ file.kv[key] # Ref(value)
    /\ file' = [file EXCEPT !.kv[key] = Ref(value)]
    /\ last' = Call("EditFile", key, "nil", <<>>, {}, NoBrief)
    /\ steps' = steps + 1
    /\ UNCHANGED <<cfg, env, phase>>

Next ==
    \/ newConfig
    \/ Reload
    \/ \E br \in StrArgs, plan \in Plans : SetRelaseBranch(br, plan)
    \/ \E fpath \in StrArgs, plan \in Plans : SetVersionFile(fpath, plan)
    \/ \E b \in BOOLEAN, plan \in Plans : SetVPrefix(b, plan)
    \/ \E name \in EnvNames : \E value \in EnvVals(name) : Setenv(name, value)
    \/ DeleteFile
    \/ CorruptFile
    \/ \E key \in Keys : \E value \in EditVals(key) : EditFile(key, value)

Spec == Init /\ [][Next]_vars

\* ------------------------------------------------- vocabulary of the claims
StringKeys == {configReleaseBranch, configVersionFile, configCommand, configTemplate}
EarlyKeys == {configReleaseBranch, configVersionFile}

EnvOf(key) ==
    CASE key = configReleaseBranch -> envReleaseBranch
      [] key = configVersionFile -> envVersionFile
      [] key = configVPrefix -> envVPrefix
      [] key = configCommand -> envCommand
      [] key = configTemplate -> envTemplate

Field(c, key) ==
    CASE key = configReleaseBranch -> c.releaseBranch
      [] key = configVersionFile -> c.versionFile
      [] key = configVPrefix -> c.vPrefix
      [] key = configCommand -> c.command
      [] key = configTemplate -> c.template

ReloadOps == {"Reload", "newConfig"}
Setters == {"SetRelaseBranch", "SetVersionFile", "SetVPrefix"}
StringSetters == {"SetRelaseBranch", "SetVersionFile"}

KeyOf(op) ==
    CASE op = "SetRelaseBranch" -> configReleaseBranch
      [] op = "SetVersionFile" -> configVersionFile
      [] op = "SetVPrefix" -> configVPrefix

\* the store holds a readable value for key in file f
Holds(f, key) == f.state = "valid" /\ f.kv[key] # Nil
Held(f, key) == f.kv[key][1]

\* ------------------------------------------------------------------ claims

\* C1: whenever Reload() (also the one the constructor runs) returns success
\* and a string setting's environment variable is non-empty, the setting is
\* afterwards exactly the environment value with source = environment,
\* whatever the store holds and whatever the field held before.
C1_Precedence ==
    [][(last'.op \in ReloadOps /\ last'.err = "nil") =>
        \A k \in StringKeys :
            env[EnvOf(k)] # "" =>
                Field(cfg', k) = <<[value |-> env[EnvOf(k)], source |-> srcEnv]>>]_vars

\* C1 witness: a successful reload resolved the command from the environment
\* while the store holds another value for its key.
C1_Witness ==
    /\ last.op \in ReloadOps /\ last.err = "nil"
    /\ env[envCommand] = "main"
    /\ Holds(file, configCommand) /\ Held(file, configCommand) # "main"
    /\ cfg.command = <<[value |-> "main", source |-> srcEnv]>>

\* C2 (as stated): after any Reload(), a string setting whose environment
\* variable is empty and whose key the store holds is the store's value with
\* source = store.
C2_StoreFallback_Original ==
    [][last'.op \in ReloadOps =>
        \A k \in StringKeys :
            (env[EnvOf(k)] = "" /\ Holds(file, k)) =>
                Field(cfg', k) = <<[value |-> Held(file, k), source |-> srcConfigFile]>>]_vars

\* C2 (amended): the same for the release branch and the version file after
\* any Reload(), and for the command and the template after a Reload() that
\* returns success.
C2_StoreFallback ==
    [][last'.op \in ReloadOps =>
        \A k \in StringKeys :
            (/\ env[EnvOf(k)] = ""
             /\ Holds(file, k)
             /\ (last'.err = "nil" \/ k \in EarlyKeys)) =>
                Field(cfg', k) = <<[value |-> Held(file, k), source |-> srcConfigFile]>>]_vars

\* C2 witness: a reload directly after a successful SetVersionFile replaced
\* the setter's value by the store's.
C2_Witness ==
    /\ last.op = "Reload"
    /\ last.after.op = "SetVersionFile" /\ last.after.err = "nil"
    /\ env[envVersionFile] = ""
    /\ Holds(file, configVersionFile)
    /\ cfg.versionFile = <<[value |-> Held(file, configVersionFile), source |-> srcConfigFile]>>

\* C3: after any Reload() that returns success, every setting whose
\* environment variable is empty and whose key the store does not hold (or
\* cannot read) is nil, whatever it was before.
C3_RecomputeFromScratch ==
    [][(last'.op \in ReloadOps /\ last'.err = "nil") =>
        /\ \A k \in StringKeys :
               (env[EnvOf(k)] = "" /\ ~Holds(file, k)) => Field(cfg', k) = Nil
        /\ (env[envVPrefix] = "" /\ ~Holds(file, configVPrefix)) => cfg'.vPrefix = Nil]_vars

\* C4: a successful SetVersionFile("") or SetRelaseBranch("") stores the
\* literal text "-" under the key, and a Reload() directly after it with the
\* setting's environment variable empty yields a non-nil value with source =
\* store whose String() is "" and whose Empty() is true.
C4_NullSentinelRoundTrip ==
    [][/\ (last'.op \in StringSetters /\ last'.arg = "" /\ last'.err = "nil") =>
            /\ file'.state = "valid"
            /\ file'.kv[KeyOf(last'.op)] = <<"-">>
       /\ (/\ last'.op = "Reload"
           /\ last.op \in StringSetters /\ last.arg = "" /\ last.err = "nil"
           /\ env[EnvOf(KeyOf(last.op))] = "") =>
            LET f == Field(cfg', KeyOf(last.op)) IN
            /\ f # Nil
            /\ Deref(f).source = srcConfigFile
            /\ String(Deref(f)) = ""
            /\ Empty(Deref(f))]_vars

\* C4 witness: Reload() ran directly after a successful SetVersionFile("") and
\* the version file is the store's "-".
C4_Witness ==
    /\ last.op = "Reload"
    /\ last.after = [op |-> "SetVersionFile", arg |-> "", err |-> "nil"]
    /\ env[envVersionFile] = ""
    /\ file.kv[configVersionFile] = <<"-">>
    /\ cfg.versionFile = <<[value |-> "-", source |-> srcConfigFile]>>

\* C5: a Reload() directly after a Reload() (or after the constructor's), with
\* environment and store unchanged in between, leaves all five settings and
\* the returned error as the first one left them.
C5_IdempotentReload ==
    [][(last'.op = "Reload" /\ last.op \in ReloadOps) =>
        (cfg' = cfg /\ last'.err = last.err)]_vars

\* C5 witness: a second Reload() in a row ran on a resolver holding values
\* from the environment and from the store.
C5_Witness ==
    /\ last.op = "Reload" /\ last.after.op = "Reload"
    /\ \E k \in StringKeys : Field(cfg, k) # Nil /\ Deref(Field(cfg, k)).source = srcEnv
    /\ \E k \in StringKeys : Field(cfg, k) # Nil /\ Deref(Field(cfg, k)).source = srcConfigFile

\* C6: when the v-prefix environment variable is non-empty and does not parse
\* as a boolean, Reload() (also the constructor's) returns a failure, looks up
\* neither the boolean key nor the later keys in the store, and leaves the
\* v-prefix, the command and the template as they were.
C6_MalformedBoolEnv ==
    [][(/\ last'.op \in ReloadOps
        /\ env[envVPrefix] # ""
        /\ env[envVPrefix] \notin ParseBoolTrue \cup ParseBoolFalse) =>
            /\ last'.err # "nil"
            /\ last'.lookups \cap {configVPrefix, configCommand, configTemplate} = {}
            /\ cfg'.vPrefix = cfg.vPrefix
            /\ cfg'.command = cfg.command
            /\ cfg'.template = cfg.template]_vars

\* C6 witness: the constructor failed on the malformed variable and left the
\* command nil although the store holds one.
C6_Witness ==
    /\ last.op = "newConfig" /\ last.err # "nil"
    /\ env[envVPrefix] = "notabool"
    /\ Holds(file, configCommand) /\ Holds(file, configVPrefix)
    /\ cfg.command = Nil /\ cfg.vPrefix = Nil

\* C7: within one setter call the store write is invoked at most twice; a
\* second write comes only directly after a failed first write and a
\* successful recreation of the file; the second write is the call's last
\* primitive call and its error is what the setter returns.
DoCalls(t) == {i \in 1..Len(t) : t[i].call = "Do"}
C7_RetryExactlyOnce ==
    last.op \in Setters =>
        LET t == last.trace
            d == DoCalls(t) IN
        /\ Cardinality(d) <= 2
        /\ \A i \in d, j \in d :
               i < j => /\ t[i].err # "nil"
                        /\ j = i + 2
                        /\ t[i + 1] = [call |-> "initializeFile", err |-> "nil"]
                        /\ j = Len(t)
                        /\ last.err = t[j].err
        /\ (Cardinality(d) = 1 /\ t[Len(t)].call = "Do") => last.err = "nil"

\* C7 witness: a setter whose retried write failed too.
C7_Witness ==
    /\ last.op \in Setters
    /\ Cardinality(DoCalls(last.trace)) = 2
    /\ last.trace[Len(last.trace)] = [call |-> "Do", err |-> "ErrDo"]
    /\ last.err = "ErrDo"

\* the file holding the default content and the one key/value, nothing else
DefaultPlus(key, value) ==
    [state |-> "valid", dflt |-> TRUE,
     kv |-> [k \in Keys |-> IF k = key THEN <<value>> ELSE <<>>]]

\* C8 (as stated): a setter called while the backing file does not exist and
\* returning success leaves the file existing with the default content plus
\* the one key/value written, and Get for the key returns the value the
\* setter was called with.
C8_RepairAfterDeletion_Original ==
    [][(last'.op \in Setters /\ file.state = "absent" /\ last'.err = "nil") =>
        /\ file'.state # "absent"
        /\ file' = DefaultPlus(KeyOf(last'.op), last'.arg)
        /\ GitGet(file', KeyOf(last'.op)) = [out |-> last'.arg, err |-> "nil"]]_vars

\* C8 (amended): the same, where the value written and returned by Get is the
\* value the setter was called with, or "-" when that value is "".
C8_RepairAfterDeletion ==
    [][(last'.op \in Setters /\ file.state = "absent" /\ last'.err = "nil") =>
        LET written == IF last'.arg = "" THEN "-" ELSE last'.arg IN
        /\ file'.state # "absent"
        /\ file' = DefaultPlus(KeyOf(last'.op), written)
        /\ GitGet(file', KeyOf(last'.op)) = [out |-> written, err |-> "nil"]]_vars

\* C8 witness: SetVersionFile("") succeeded on a missing file, which now holds
\* the default content and the one key.
C8_Witness ==
    /\ last.op = "SetVersionFile" /\ last.arg = "" /\ last.err = "nil"
    /\ last.trace[1] = [call |-> "initializeFile", err |-> "nil"]
    /\ file = DefaultPlus(configVersionFile, "-")

\* what Reload() derives for a string setting from environment, then store
Derived(e, f, key) ==
    IF e[EnvOf(key)] # "" THEN <<[value |-> e[EnvOf(key)], source |-> srcEnv]>>
    ELSE IF Holds(f, key) THEN <<[value |-> Held(f, key), source |-> srcConfigFile]>>
    ELSE <<>>

\* C9: after a string setter returns success with v the accessor returns raw
\* v with source = programmatic-set, also with the environment variable
\* non-empty; every call other than a Reload() leaves that value in place;
\* the next successful Reload() replaces it by the value derived from
\* environment, then store.
C9_ProgrammaticSetUntilReload ==
    [][/\ (last'.op \in StringSetters /\ last'.err = "nil") =>
            Field(cfg', KeyOf(last'.op)) = <<[value |-> last'.arg, source |-> srcDetect]>>
       /\ \A k \in EarlyKeys :
            (Field(cfg, k) # Nil /\ Deref(Field(cfg, k)).source = srcDetect) =>
                /\ (last'.op \notin ReloadOps
                    /\ ~(last'.op \in Setters /\ KeyOf(last'.op) = k /\ last'.err = "nil"))
                        => Field(cfg', k) = Field(cfg, k)
                /\ (last'.op = "Reload" /\ last'.err = "nil")
                        => Field(cfg', k) = Derived(env, file, k)]_vars

\* C10: the v-prefix is nil after construction with its environment variable
\* empty and no store entry; after a successful SetVPrefix(false) it is
\* exactly false and the store holds the text "false"; a Reload() directly
\* after that with the environment variable empty still yields exactly false.
C10_BoolTriState ==
    [][/\ (last'.op = "newConfig" /\ env[envVPrefix] = "" /\ ~Holds(file, configVPrefix)) =>
            (cfg'.vPrefix = Nil /\ cfg'.vPrefix # <<FALSE>>)
       /\ (last'.op = "SetVPrefix" /\ last'.arg = "false" /\ last'.err = "nil") =>
            /\ cfg'.vPrefix = <<FALSE>>
            /\ file'.state = "valid"
            /\ file'.kv[configVPrefix] = <<"false">>
       /\ (/\ last'.op = "Reload"
           /\ last.op = "SetVPrefix" /\ last.arg = "false" /\ last.err = "nil"
           /\ env[envVPrefix] = "") =>
            (last'.err = "nil" /\ cfg'.vPrefix = <<FALSE>>)]_vars

\* C10 witness: Reload() ran directly after a successful SetVPrefix(false)
\* with the environment variable empty, and the v-prefix is false.
C10_Witness ==
    /\ last.op = "Reload"
    /\ last.after = [op |-> "SetVPrefix", arg |-> "false", err |-> "nil"]
    /\ env[envVPrefix] = ""
    /\ file.kv[configVPrefix] = <<"false">>
    /\ cfg.vPrefix = <<FALSE>>

\* C11: Reload() (also the constructor's) returns success in every state of
\* the store and the backing file exactly when the v-prefix environment
\* variable is empty or parses as a boolean.
C11_StoreMissesAreNotErrors ==
    [][last'.op \in ReloadOps =>
        (last'.err = "nil" <=>
            (env[envVPrefix] = "" \/ env[envVPrefix] \in ParseBoolTrue \cup ParseBoolFalse))]_vars

\* C11 witness: a Reload() looked the boolean up and succeeded although the
\* backing file is corrupt or the store holds an unreadable boolean.
C11_Witness ==
    /\ last.op = "Reload" /\ last.err = "nil"
    /\ configVPrefix \in last.lookups
    /\ \/ file.state = "corrupt"
       \/ (Holds(file, configVPrefix) /\ Held(file, configVPrefix) = "maybe")

\* C12: a failed initializeFile, before the write or after a failed write, is
\* the setter's last primitive call and its error is what the setter returns.
C12_InitFailureAborts ==
    last.op \in Setters =>
        \A i \in 1..Len(last.trace) :
            (last.trace[i].call = "initializeFile" /\ last.trace[i].err # "nil") =>
                (i = Len(last.trace) /\ last.err = last.trace[i].err)

\* C12 witness: a setter whose first write failed and whose recreation of the
\* file failed too.
C12_Witness ==
    /\ last.op \in Setters
    /\ Len(last.trace) = 2
    /\ last.trace[1] = [call |-> "Do", err |-> "ErrDo"]
    /\ last.trace[2].call = "initializeFile" /\ last.trace[2].err # "nil"
    /\ last.err = last.trace[2].err

\* C13: for every resolved string value, String() is "" when the raw text is
\* "-" and the raw text otherwise, and Empty() holds exactly when the raw text
\* is "-" or "".
C13_ValueAccessors ==
    \A k \in StringKeys :
        Field(cfg, k) # Nil =>
            LET cv == Deref(Field(cfg, k)) IN
            /\ String(cv) = (IF cv.value = "-" THEN "" ELSE cv.value)
            /\ Empty(cv) <=> cv.value \in {"-", ""}
            /\ Empty(cv) <=> String(cv) = ""

\* C13 witness: the resolver holds the raw text "" from a setter, the raw
\* text "-" from the store and a plain value.
C13_Witness ==
    /\ \E k \in StringKeys :
           Field(cfg, k) = <<[value |-> "", source |-> srcDetect]>>
    /\ \E k \in StringKeys :
           Field(cfg, k) = <<[value |-> "-", source |-> srcConfigFile]>>
    /\ \E k \in StringKeys :
           Field(cfg, k) # Nil /\ Deref(Field(cfg, k)).value \notin {"", "-"}

\* C14: when Reload() fails on a malformed boolean environment value, the
\* release branch and the version file hold the outcome of this call's own
\* lookups (environment value, else store value, else nil), whatever they
\* held before.
C14_OverwriteWithoutRollback ==
    [][(last'.op \in ReloadOps /\ last'.err # "nil") =>
        \A k \in EarlyKeys : Field(cfg', k) = Derived(env, file, k)]_vars

\* C15: after a Reload() that returns success no string setting has source =
\* programmatic-set, and every string setting with source = store has the
\* raw value the store holds for its key.
C15_NoStaleProvenance ==
    (last.op \in ReloadOps /\ last.err = "nil") =>
        \A k \in StringKeys :
            Field(cfg, k) # Nil =>
                /\ Deref(Field(cfg, k)).source # srcDetect
                /\ Deref(Field(cfg, k)).source = srcConfigFile =>
                       (Holds(file, k) /\ Held(file, k) = Deref(Field(cfg, k)).value)

\* the setter's first write failed and its retry succeeded
Repaired(call) ==
    /\ call.op \in Setters /\ call.err = "nil"
    /\ Len(call.trace) >= 3
    /\ call.trace[Len(call.trace) - 2] = [call |-> "Do", err |-> "ErrDo"]
    /\ call.trace[Len(call.trace)] = [call |-> "Do", err |-> "nil"]

\* C16: when a setter's first store write fails and the retry succeeds, the
\* backing file afterwards is the default content plus only the key just
\* written; no other key is left in the store.
C16_RepairIsDestructive ==
    [][Repaired(last') =>
        LET written == IF last'.arg = "" THEN "-" ELSE last'.arg IN
        /\ file' = DefaultPlus(KeyOf(last'.op), written)
        /\ \A k \in Keys \ {KeyOf(last'.op)} : ~Holds(file', k)]_vars

\* C16 witness: SetVersionFile went through the repair and the release branch
\* key, written by an earlier successful SetRelaseBranch, is gone from the
\* store.
C16_Witness ==
    /\ Repaired(last) /\ last.op = "SetVersionFile"
    /\ cfg.releaseBranch # Nil /\ Deref(cfg.releaseBranch).source = srcDetect
    /\ ~Holds(file, configReleaseBranch)
    /\ Holds(file, configVersionFile)

\* C17: Reload() (also the constructor's) leaves the backing file, the store
\* and the environment as they are; a missing file comes into existence only
\* through a setter; with the file missing Reload() finds no store value: it
\* fails only on a malformed boolean and every setting with an empty
\* environment variable keeps what it held.
C17_ReloadIsReadOnly ==
    [][/\ last'.op \in ReloadOps => (file' = file /\ env' = env)
       /\ (~exists(file) /\ exists(file')) => last'.op \in Setters
       /\ (last'.op \in ReloadOps /\ ~exists(file)) =>
            /\ \A k \in EarlyKeys :
                   env[EnvOf(k)] = "" => Field(cfg', k) = Field(cfg, k)
            /\ last'.err = "nil" =>
                   \A k \in Keys :
                       env[EnvOf(k)] = "" => Field(cfg', k) = Field(cfg, k)]_vars

\* C17 witness: a Reload() ran on a missing file, which is still missing.
C17_Witness ==
    /\ last.op = "Reload" /\ last.err = "nil"
    /\ last.lookups = Keys
    /\ ~exists(file)

\* C18: whenever a setter returns a failure, all five in-memory fields are
\* what they were before the call.
C18_FailedSetterKeepsCache ==
    [][(last'.op \in Setters /\ last'.err # "nil") => cfg' = cfg]_vars

\* C18 witness: a setter failed after resetting the backing file to the
\* default content, and the cache still holds a store-sourced value.
C18_Witness ==
    /\ last.op \in Setters /\ last.err # "nil"
    /\ file = defaultConfigContent
    /\ Len(last.trace) = 3
    /\ \E k \in StringKeys :
           Field(cfg, k) # Nil /\ Deref(Field(cfg, k)).source = srcConfigFile

\* C19: for a string setter that returned success with v, a Reload() directly
\* after it with the setting's environment variable empty shows the same
\* String() as before it, changes the source from programmatic-set to store,
\* and changes the raw value only when v = "" (from "" to "-").
C19_SetReloadAgreement ==
    [][(/\ last'.op = "Reload"
        /\ last.op \in StringSetters /\ last.err = "nil"
        /\ env[EnvOf(KeyOf(last.op))] = "") =>
            LET b == Field(cfg, KeyOf(last.op))
                a == Field(cfg', KeyOf(last.op)) IN
            /\ b # Nil /\ a # Nil
            /\ String(Deref(a)) = String(Deref(b))
            /\ Deref(b).source = srcDetect /\ Deref(a).source = srcConfigFile
            /\ Deref(b).value = last.arg
            /\ Deref(a).value # Deref(b).value <=> last.arg = ""
            /\ last.arg = "" => (Deref(b).value = "" /\ Deref(a).value = "-")]_vars

\* C19 witness: Reload() ran directly after a successful SetRelaseBranch("-")
\* and the release branch is the store's "-".
C19_Witness ==
    /\ last.op = "Reload"
    /\ last.after = [op |-> "SetRelaseBranch", arg |-> "-", err |-> "nil"]
    /\ env[envReleaseBranch] = ""
    /\ cfg.releaseBranch = <<[value |-> "-", source |-> srcConfigFile]>>

\* C20: a setter call, successful or not, with or without self-repair,
\* changes at most the in-memory field of the setting it names.
C20_SetterTouchesOwnSlot ==
    [][last'.op \in Setters =>
        \A k \in Keys \ {KeyOf(last'.op)} : Field(cfg', k) = Field(cfg, k)]_vars

\* C20 witness: after a setter's self-repair the cache holds a store-sourced
\* command whose key the store no longer contains.
C20_Witness ==
    /\ Repaired(last)
    /\ cfg.command # Nil /\ Deref(cfg.command).source = srcConfigFile
    /\ ~Holds(file, configCommand)

====
